---- MODULE Spec2Model ----
(***************************************************************************)
(* A model of bin/weectllib/db_actions.py: the interactive database        *)
(* handlers of weectl.  One handler runs at a time against a storage       *)
(* state; the user's answers, the command-line arguments and the failures  *)
(* of the database library are nondeterministic inputs.  The library       *)
(* (weewx.manager, weedb) is modelled by its contract.                     *)
(***************************************************************************)
EXTENDS Integers, Sequences, FiniteSets, TLC

\* ------------------------------------------------------------- bounds
\* Calendar days of archive history.
NumDays == 22
\* Most records one day holds.
MaxPerDay == 2
\* Invocations of the same command in a row.
MaxRuns == 2

\* ---------------------------------------------------- program constants
\* rebuild_daily: backfill_day_summary(..., trans_days=20)
TransDays == 20

Days == 1 .. NumDays
\* Observation-type (column) names the commands are given.
Cols == {"a", "b", "c"}
\* A date argument is a day, or 0 when no date is given (Python's None).
DateArgs == {0, 2, NumDays - 1}

\* ------------------------------------------------------- archive records
\* The k-th record of day d: an observation value and its interval (minutes).
ValOf(d, k) == (d + 2 * k) % 7
IntervalOf(d, k) == 5 * (1 + (k % 2))

\* A DailySummary row of one day (one observation type).
NoRow == [exists |-> FALSE, count |-> 0, sum |-> 0, min |-> 0, max |-> 0,
          wsum |-> 0, sumtime |-> 0]

\* An accumulator with no record folded in yet.
EmptyRow == [NoRow EXCEPT !.exists = TRUE]

Min2(x, y) == IF x <= y THEN x ELSE y
Max2(x, y) == IF x >= y THEN x ELSE y

\* Fold the k-th record of day d into an accumulator row.
AddRecord(row, d, k) ==
    [exists |-> TRUE,
     count |-> row.count + 1,
     sum |-> row.sum + ValOf(d, k),
     min |-> IF row.count = 0 THEN ValOf(d, k) ELSE Min2(row.min, ValOf(d, k)),
     max |-> IF row.count = 0 THEN ValOf(d, k) ELSE Max2(row.max, ValOf(d, k)),
     wsum |-> row.wsum + ValOf(d, k) * IntervalOf(d, k),
     sumtime |-> row.sumtime + IntervalOf(d, k)]

RECURSIVE FoldDay(_, _, _)
\* The accumulator after the first k records of day d.
FoldDay(row, d, k) ==
    IF k = 0 THEN row ELSE AddRecord(FoldDay(row, d, k - 1), d, k)

\* The aggregate of a day that holds n records.
Aggregate(d, n) == IF n = 0 THEN NoRow ELSE FoldDay(EmptyRow, d, n)

\* The aggregate as written before interval weighting (every weight 1).
LegacyRow(d, n) ==
    IF n = 0 THEN NoRow
    ELSE [Aggregate(d, n) EXCEPT !.wsum = Aggregate(d, n).sum, !.sumtime = n]

\* A row unrelated to the records of its day.
StaleRow == [exists |-> TRUE, count |-> 9, sum |-> 9, min |-> 9, max |-> 9,
             wsum |-> 9, sumtime |-> 9]

\* Record stores: how many records each day holds.
EmptyStore == [d \in Days |-> 0]
Store(gap, shift) ==
    [d \in Days |-> IF d = gap THEN 0 ELSE 1 + ((d + shift) % MaxPerDay)]
SparseStore == [d \in Days |-> IF d \in {2, NumDays} THEN 1 ELSE 0]
Stores == {EmptyStore, SparseStore} \cup {Store(g, s) : g \in {0, 3}, s \in {0, 1}}
DefaultStore == Store(3, 0)

RECURSIVE SumTo(_, _)
SumTo(f, n) == IF n = 0 THEN 0 ELSE f[n] + SumTo(f, n - 1)
\* SELECT COUNT(dateTime) over the archive.
NumRecs(store) == SumTo(store, NumDays)

\* ------------------------------------------------------ version strings
\* A version string is a sequence of characters; Python orders characters by
\* code point.
Code(ch) ==
    CASE ch = "." -> 46
      [] ch = "0" -> 48 [] ch = "1" -> 49 [] ch = "2" -> 50 [] ch = "3" -> 51
      [] ch = "4" -> 52 [] ch = "5" -> 53 [] ch = "6" -> 54 [] ch = "7" -> 55
      [] ch = "8" -> 56 [] ch = "9" -> 57

NoVersion == [present |-> FALSE, text |-> <<>>]
Ver(t) == [present |-> TRUE, text |-> t]
VersionTexts ==
    { <<"1", ".", "0">>, <<"1", ".", "9">>, <<"2", ".", "0">>,
      <<"3", ".", "0">>, <<"4", ".", "0">>, <<"1", "0", ".", "0">>,
      <<"2", "0", ".", "0">>, <<"0", ".", "9">> }
Versions == {NoVersion} \cup {Ver(t) : t \in VersionTexts}
\* The version the library writes when it creates the daily summary tables.
LibraryVersion == Ver(<<"4", ".", "0">>)

\* ------------------------------------------------------------- storage
VARIABLES
    backendUp,       \* the database server / file system can be reached
    archive,         \* "absent" | "ready": the database of db_binding
    schema,          \* the columns of its archive table
    recs,            \* its records: day -> number of records
    dailyExists,     \* the daily summary tables exist
    summary,         \* day -> DailySummary row
    version,         \* the 'Version' metadata of the daily summaries
    missingDerived,  \* some derived observations are not stored yet
    newDb,           \* "absent" | "ready": the database '<name>_new'
    newRecs,         \* the records it holds
    dest,            \* "absent" | "ready": the database of dest_binding
    destRecs,        \* the records it holds (committed)
    logDisabled      \* logging.disable(logging.INFO) is in force

\* ------------------------------------------------------ one invocation
VARIABLES
    op,              \* the handler invoked, "none" before the first
    pc,              \* where the handler is
    dryRun,          \* its dry_run argument
    arg,             \* its other arguments and the configuration it reads
    runs,            \* invocations so far
    confirmed,       \* a prompt of this run has been answered 'y'
    out,             \* what this run has printed
    calls,           \* the mutating library calls of this run
    exc,             \* the exception the handler raised to its caller
    errCol,          \* the column a reported NoColumnError names
    reported,        \* the record count a completion message reports
    entry,           \* the storage when this run was entered
    first,           \* how the previous run ended
    txn              \* the open transaction of a batch operation

storageVars == <<backendUp, archive, schema, recs, dailyExists, summary, version,
                 missingDerived, newDb, newRecs, dest, destRecs>>
vars == <<backendUp, archive, schema, recs, dailyExists, summary, version,
          missingDerived, newDb, newRecs, dest, destRecs, logDisabled,
          op, pc, dryRun, arg, runs, confirmed, out, calls, exc, errCol,
          reported, entry, first, txn>>

\* The storage as one value.
Storage ==
    [backendUp |-> backendUp, archive |-> archive, schema |-> schema,
     recs |-> recs, dailyExists |-> dailyExists, summary |-> summary,
     version |-> version, missingDerived |-> missingDerived,
     newDb |-> newDb, newRecs |-> newRecs, dest |-> dest, destRecs |-> destRecs]

NoSummary == [d \in Days |-> NoRow]
UpToDate(store) == [d \in Days |-> Aggregate(d, store[d])]
Legacy(store) == [d \in Days |-> LegacyRow(d, store[d])]
Stale == [d \in Days |-> StaleRow]

NoTxn == [day |-> 0, k |-> 0, acc |-> NoRow, rows |-> NoSummary, batch |-> {},
          nrecs |-> 0, ndays |-> 0, copied |-> 0, lost |-> 0, commits |-> 0]

\* ---------------------------------------------------------------- Init
BaseVersion == LibraryVersion

\* The storage states a run may start from: an initialised archive with one
\* part of the storage varied at a time.
InitStorage ==
    \/ \* the schema varies
       /\ schema \in SUBSET Cols
       /\ backendUp = TRUE /\ archive = "ready" /\ recs = DefaultStore
       /\ dailyExists = TRUE /\ summary = UpToDate(DefaultStore)
       /\ version = BaseVersion /\ missingDerived = FALSE
       /\ newDb = "absent" /\ newRecs = 0 /\ dest = "absent" /\ destRecs = 0
    \/ \* the records and the daily summaries vary
       /\ recs \in Stores
       /\ \/ dailyExists = FALSE /\ summary = NoSummary /\ version = NoVersion
          \/ /\ dailyExists = TRUE /\ version = BaseVersion
             /\ summary \in {NoSummary, UpToDate(recs), Legacy(recs), Stale}
       /\ backendUp = TRUE /\ archive = "ready" /\ schema = {"a", "b"}
       /\ missingDerived = FALSE
       /\ newDb = "absent" /\ newRecs = 0 /\ dest = "absent" /\ destRecs = 0
    \/ \* the version metadata varies
       /\ version \in Versions
       /\ backendUp = TRUE /\ archive = "ready" /\ schema = {"a", "b"}
       /\ recs = DefaultStore /\ dailyExists = TRUE
       /\ summary = Legacy(DefaultStore) /\ missingDerived = FALSE
       /\ newDb = "absent" /\ newRecs = 0 /\ dest = "absent" /\ destRecs = 0
    \/ \* the databases that exist vary
       /\ backendUp \in BOOLEAN
       /\ \/ /\ archive = "ready" /\ schema = {"a", "b"} /\ recs = SparseStore
             /\ dailyExists = TRUE /\ summary = UpToDate(SparseStore)
             /\ version = BaseVersion /\ missingDerived \in BOOLEAN
          \/ /\ archive = "absent" /\ schema = {} /\ recs = EmptyStore
             /\ dailyExists = FALSE /\ summary = NoSummary
             /\ version = NoVersion /\ missingDerived = FALSE
       /\ \/ newDb = "absent" /\ newRecs = 0
          \/ newDb = "ready" /\ newRecs = 1
       /\ \/ dest = "absent" /\ destRecs = 0
          \/ dest = "ready" /\ destRecs \in {0, 3}

NoArg == [cols |-> {}, col |-> "a", newName |-> "a", fromD |-> 0, toD |-> 0,
          destBinding |-> FALSE, destCfg |-> "ok", destOpen |-> "ok",
          convert |-> FALSE]

NoFirst == [ran |-> FALSE, confirmed |-> FALSE, dryRun |-> FALSE,
            exc |-> "none", out |-> <<>>]

Init ==
    /\ InitStorage
    /\ logDisabled = FALSE
    /\ op = "none" /\ pc = "idle" /\ dryRun = FALSE /\ arg = NoArg /\ runs = 0
    /\ confirmed = FALSE /\ out = <<>> /\ calls = {} /\ exc = "none"
    /\ errCol = "" /\ reported = 0 /\ txn = NoTxn
    /\ entry = Storage
    /\ first = NoFirst

\* ------------------------------------------------------- the commands
DateRanges ==
    {r \in [fromD : DateArgs, toD : DateArgs] :
        r.fromD = 0 \/ r.toD = 0 \/ r.fromD <= r.toD}

\* The arguments each command is invoked with.
ArgsOf(h) ==
    CASE h \in {"rebuild_daily", "reweight_daily", "calc_missing"} ->
            {[NoArg EXCEPT !.fromD = r.fromD, !.toD = r.toD] : r \in DateRanges}
      [] h = "add_column" -> {[NoArg EXCEPT !.col = c] : c \in Cols}
      [] h = "rename_column" ->
            {[NoArg EXCEPT !.col = c, !.newName = n] :
                c \in Cols, n \in {x \in Cols : x \notin schema}}
      [] h = "drop_columns" ->
            {[NoArg EXCEPT !.cols = cs] : cs \in (SUBSET Cols) \ {{}}}
      [] h = "reconfigure_database" ->
            {[NoArg EXCEPT !.convert = c] : c \in BOOLEAN}
      [] h = "transfer_database" ->
            {NoArg}
            \cup {[NoArg EXCEPT !.destBinding = TRUE, !.destCfg = c] :
                    c \in {"UnknownBinding", "UnknownDatabase", "BadSchema",
                           "UnknownDatabaseType"}}
            \cup {[NoArg EXCEPT !.destBinding = TRUE, !.destOpen = o] :
                    o \in {"ok", "ImportError", "OSError", "OperationalError"}}
      [] OTHER -> {NoArg}

Handlers ==
    {"create_database", "drop_daily", "rebuild_daily", "add_column",
     "rename_column", "drop_columns", "reconfigure_database",
     "transfer_database", "calc_missing", "check", "reweight_daily"}

\* A command is invoked from the command line.
invoke ==
    /\ pc = "idle"
    /\ \E h \in Handlers, d \in BOOLEAN :
         \E a \in ArgsOf(h) :
            /\ op' = h /\ dryRun' = (d /\ h # "check") /\ arg' = a
    /\ pc' = "begin" /\ runs' = 1
    /\ UNCHANGED <<confirmed, out, calls, exc, errCol, reported, entry, first,
                   txn, logDisabled>>
    /\ UNCHANGED storageVars

\* The same command line is run once more, after the previous run returned.
invoke_again ==
    /\ pc = "done" /\ exc = "none" /\ runs < MaxRuns
    /\ pc' = "begin" /\ runs' = runs + 1
    /\ first' = [ran |-> TRUE, confirmed |-> confirmed, dryRun |-> dryRun,
                 exc |-> exc, out |-> out]
    /\ confirmed' = FALSE /\ out' = <<>> /\ calls' = {} /\ exc' = "none"
    /\ errCol' = "" /\ reported' = 0 /\ txn' = NoTxn
    /\ entry' = Storage
    /\ UNCHANGED <<op, dryRun, arg, logDisabled>>
    /\ UNCHANGED storageVars

\* ---------------------------------------------------- shared fragments
\* _prepare: the dry-run banner and the configuration file line.
Prepare ==
    (IF dryRun THEN <<"This is a dry run. Nothing will actually be done.">>
     ELSE <<>>) \o <<"The configuration file will be used.">>

\* The closing line of a dry run.
Trailer ==
    IF dryRun THEN <<"This was a dry run. Nothing was actually done.">> ELSE <<>>

\* The handler prints msgs and returns to its caller.
Return(msgs) ==
    /\ pc' = "done" /\ exc' = "none" /\ out' = out \o msgs

\* The handler prints msgs and an exception leaves it.
Raise(e, msgs) ==
    /\ pc' = "done" /\ exc' = e /\ out' = out \o msgs

\* A mutating library call is made; c tells whether a prompt was answered 'y'.
Log(name, c) == calls' = calls \cup {[call |-> name, confirmed |-> c]}

\* y_or_n returns 'y' or 'n'.
Answers == {"y", "n"}

\* Manager.open on the archive database succeeds.
CanOpenArchive == backendUp /\ archive = "ready"
\* open_manager_with_config without initialize succeeds: the database exists
\* and is initialised, daily summaries included.
CanOpenManager == CanOpenArchive /\ dailyExists

invocation == <<op, dryRun, arg, runs, entry, first>>
otherThanSchema == <<backendUp, archive, recs, dailyExists, summary, version,
                     missingDerived, newDb, newRecs, dest, destRecs>>
otherThanDaily == <<backendUp, archive, schema, recs, missingDerived, newDb,
                    newRecs, dest, destRecs>>

\* What each prompting command prints before its prompt.
Advice(h) ==
    CASE h = "drop_daily" ->
            <<"Proceeding will delete all your daily summaries from database">>
      [] h = "rebuild_daily" -> <<"Daily summaries will be rebuilt.">>
      [] h = "reweight_daily" ->
            <<"The weighted sums in the daily summaries will be recalculated.">>
      [] OTHER -> <<>>

\* _prepare, and what the command prints up to its y_or_n prompt.
prepare ==
    /\ pc = "begin"
    /\ op \in {"drop_daily", "rebuild_daily", "add_column", "rename_column",
               "drop_columns", "reweight_daily"}
    /\ out' = out \o Prepare \o Advice(op)
    /\ pc' = "prompt"
    /\ UNCHANGED <<confirmed, calls, exc, errCol, reported, txn, logDisabled>>
    /\ UNCHANGED invocation
    /\ UNCHANGED storageVars

\* ------------------------------------------------------ create_database
\* open_manager_with_config(..., initialize=True): the database, its archive
\* table and its daily summary tables are created where they are missing.
OpenInit ==
    /\ archive' = "ready"
    /\ schema' = IF archive = "ready" THEN schema ELSE {"a", "b"}
    /\ dailyExists' = TRUE
    /\ summary' = IF dailyExists THEN summary ELSE NoSummary
    /\ version' = IF dailyExists THEN version ELSE LibraryVersion
    /\ UNCHANGED <<backendUp, recs, missingDerived, newDb, newRecs, dest, destRecs>>

create_database ==
    /\ op = "create_database" /\ pc = "begin"
    /\ LET banner ==
             (IF dryRun
              THEN <<"This is a dry run. Nothing will actually be done.">>
              ELSE <<>>) \o <<"The configuration file will be used.">>
       IN  IF CanOpenManager THEN
              /\ Return(banner \o <<"Database already exists. Nothing done.">>)
              /\ UNCHANGED calls /\ UNCHANGED storageVars
           ELSE IF dryRun THEN
              /\ Return(banner)
              /\ UNCHANGED calls /\ UNCHANGED storageVars
           ELSE IF ~backendUp THEN
              /\ Log("initialize", confirmed)
              /\ Raise("OperationalError", banner)
              /\ UNCHANGED storageVars
           ELSE
              /\ Log("initialize", confirmed)
              /\ OpenInit
              /\ Return(banner \o <<"Created database.">>)
    /\ UNCHANGED <<confirmed, errCol, reported, txn, logDisabled>>
    /\ UNCHANGED invocation

\* ----------------------------------------------------------- drop_daily
\* A faulty test that proceeds whatever the answer.
DropDailyProceedsAlways(ans) == TRUE

\* drop_daily goes on only when the answer is 'y'.
DropDailyProceeds(ans) == ans = "y"

drop_daily_answer(ans) ==
    /\ op = "drop_daily" /\ pc = "prompt"
    /\ confirmed' = (confirmed \/ ans = "y")
    /\ IF ~DropDailyProceeds(ans) THEN
          /\ Return(<<"Nothing done.">> \o Trailer)
          /\ UNCHANGED <<calls, dailyExists, summary, version>>
       ELSE IF ~CanOpenManager THEN
          /\ Return(<<"Dropping daily summary tables ...",
                      "No daily summaries found in database. Nothing done.">>
                    \o Trailer)
          /\ UNCHANGED <<calls, dailyExists, summary, version>>
       ELSE IF dryRun THEN
          /\ Return(<<"Dropping daily summary tables ...",
                      "Daily summary tables dropped from database">> \o Trailer)
          /\ UNCHANGED <<calls, dailyExists, summary, version>>
       ELSE
          /\ Log("drop_daily", confirmed')
          /\ \/ /\ dailyExists' = FALSE /\ summary' = NoSummary
                /\ version' = NoVersion
                /\ Return(<<"Dropping daily summary tables ...",
                            "Daily summary tables dropped from database">>)
             \/ /\ UNCHANGED <<dailyExists, summary, version>>
                /\ Return(<<"Dropping daily summary tables ...",
                            "Error OperationalError",
                            "Drop daily summary tables failed for database">>)
    /\ UNCHANGED <<errCol, reported, txn, logDisabled>>
    /\ UNCHANGED invocation
    /\ UNCHANGED otherThanDaily

\* ------------------------------------------- add / rename / drop columns
\* Manager.add_column: fails with ColumnExists if the name is present.
LibAddColumn(sch, c) ==
    IF c \in sch THEN [err |-> "ColumnExists", schema |-> sch]
    ELSE [err |-> "none", schema |-> sch \cup {c}]

\* Manager.rename_column: fails with NoColumnError if the source is absent.
LibRenameColumn(sch, c, n) ==
    IF c \notin sch THEN [err |-> "NoColumnError", schema |-> sch]
    ELSE [err |-> "none", schema |-> (sch \ {c}) \cup {n}]

\* Manager.drop_columns: all or nothing; fails with NoColumnError if a name
\* is missing.
LibDropColumns(sch, cs) ==
    IF cs \subseteq sch THEN [err |-> "none", schema |-> sch \ cs]
    ELSE [err |-> "NoColumnError", schema |-> sch]

add_column_answer(ans) ==
    /\ op = "add_column" /\ pc = "prompt"
    /\ confirmed' = (confirmed \/ ans = "y")
    /\ IF ans # "y" THEN
          /\ Return(<<"Nothing done.">> \o Trailer)
          /\ UNCHANGED <<calls, schema>>
       ELSE IF ~CanOpenManager THEN
          /\ Raise("OperationalError", <<>>)
          /\ UNCHANGED <<calls, schema>>
       ELSE IF dryRun THEN
          /\ Return(<<"New column added to database.">> \o Trailer)
          /\ UNCHANGED <<calls, schema>>
       ELSE
          LET r == LibAddColumn(schema, arg.col)
          IN  /\ Log("add_column", confirmed')
              /\ schema' = r.schema
              /\ IF r.err = "none"
                 THEN Return(<<"New column added to database.">>)
                 ELSE Raise(r.err, <<>>)
    /\ UNCHANGED <<errCol, reported, txn, logDisabled>>
    /\ UNCHANGED invocation
    /\ UNCHANGED otherThanSchema

rename_column_answer(ans) ==
    /\ op = "rename_column" /\ pc = "prompt"
    /\ confirmed' = (confirmed \/ ans = "y")
    /\ IF ans # "y" THEN
          /\ Return(<<"Nothing done.">> \o Trailer)
          /\ UNCHANGED <<calls, schema>>
       ELSE IF ~CanOpenManager THEN
          /\ Raise("OperationalError", <<>>)
          /\ UNCHANGED <<calls, schema>>
       ELSE IF dryRun THEN
          /\ Return(<<"Column renamed.">> \o Trailer)
          /\ UNCHANGED <<calls, schema>>
       ELSE
          LET r == LibRenameColumn(schema, arg.col, arg.newName)
          IN  /\ Log("rename_column", confirmed')
              /\ schema' = r.schema
              /\ IF r.err = "none"
                 THEN Return(<<"Column renamed.">>)
                 ELSE Raise(r.err, <<>>)
    /\ UNCHANGED <<errCol, reported, txn, logDisabled>>
    /\ UNCHANGED invocation
    /\ UNCHANGED otherThanSchema

\* drop_columns' handling of what Manager.drop_columns raised.
DropColumnsReportAlwaysOk(err) == <<"Column(s) dropped from the database.">>

DropColumnsReport(err) ==
    IF err = "NoColumnError"
    THEN <<"NoColumnError: column does not exist", "Nothing done.">>
    ELSE <<"Column(s) dropped from the database.">>

drop_columns_answer(ans) ==
    /\ op = "drop_columns" /\ pc = "prompt"
    /\ confirmed' = (confirmed \/ ans = "y")
    /\ IF ans # "y" THEN
          /\ Return(<<"Nothing done.">> \o Trailer)
          /\ UNCHANGED <<calls, schema, errCol>>
       ELSE IF dryRun THEN
          /\ Return(<<"This may take a while...">> \o Trailer)
          /\ UNCHANGED <<calls, schema, errCol>>
       ELSE IF ~CanOpenManager THEN
          /\ Raise("OperationalError", <<"This may take a while...">>)
          /\ UNCHANGED <<calls, schema, errCol>>
       ELSE
          LET r == LibDropColumns(schema, arg.cols)
          IN  /\ Log("drop_columns", confirmed')
              /\ schema' = r.schema
              /\ IF r.err = "none" THEN errCol' = ""
                 ELSE errCol' \in arg.cols \ schema
              /\ Return(<<"This may take a while...">> \o DropColumnsReport(r.err))
    /\ UNCHANGED <<reported, txn, logDisabled>>
    /\ UNCHANGED invocation
    /\ UNCHANGED otherThanSchema

\* -------------------------------------------------------- rebuild_daily
\* Day d lies within the inclusive bounds start_d .. stop_d (0: unbounded).
InRange(d) ==
    /\ arg.fromD = 0 \/ d >= arg.fromD
    /\ arg.toD = 0 \/ d <= arg.toD

\* The days the backfill rebuilds: those in range that hold a record.
RebuildDays == {d \in Days : InRange(d) /\ recs[d] > 0}

\* The first day to rebuild after day d, 0 if there is none.
NextDay(d) ==
    IF \E x \in RebuildDays : x > d
    THEN CHOOSE x \in RebuildDays : x > d /\ \A y \in RebuildDays : y > d => x <= y
    ELSE 0

\* A faulty accumulator that starts from the row the summary already holds.
DayAccumOnTop(d) == IF summary[d].exists THEN summary[d] ELSE EmptyRow

\* The accumulator a day's rebuild starts from: the prior aggregate is replaced.
DayAccum(d) == EmptyRow

\* A faulty open that does not initialise.
RebuildOpenFailsNoInit == ~CanOpenManager

\* rebuild_daily opens the manager with initialize=True: the open fails only
\* if the backend cannot be reached.
RebuildOpenFails == ~backendUp

\* A faulty batch size: the whole history in one transaction.
RebuildTransDaysUnbatched == NumDays + 1

\* The trans_days rebuild_daily passes to backfill_day_summary.
RebuildTransDays == TransDays

\* What rebuild_daily prints once backfill_day_summary has returned.
RebuildReport(nrecs, ndays) ==
    IF nrecs # 0
    THEN <<IF ndays = 1 THEN "Processed records to rebuild 1 daily summary"
           ELSE "Processed records to rebuild daily summaries",
           "Rebuild of daily summaries in database complete.">>
    ELSE <<"Daily summaries up to date.">>

rebuild_daily_answer(ans) ==
    /\ op = "rebuild_daily" /\ pc = "prompt"
    /\ confirmed' = (confirmed \/ ans # "n")
    /\ IF ans = "n" THEN
          /\ Return(<<"Nothing done.">>)
          /\ UNCHANGED <<calls, txn, reported>> /\ UNCHANGED storageVars
       ELSE IF dryRun THEN
          /\ Return(<<"Rebuilding daily summaries in database ...">> \o Trailer)
          /\ UNCHANGED <<calls, txn, reported>> /\ UNCHANGED storageVars
       ELSE IF RebuildOpenFails THEN
          /\ Log("initialize", confirmed')
          /\ Raise("OperationalError", <<"Rebuilding daily summaries in database ...">>)
          /\ UNCHANGED <<txn, reported>> /\ UNCHANGED storageVars
       ELSE
          /\ calls' = calls \cup {[call |-> "initialize", confirmed |-> confirmed'],
                                  [call |-> "backfill_day_summary",
                                   confirmed |-> confirmed']}
          /\ OpenInit
          /\ IF NextDay(0) = 0 THEN
                \* nothing to rebuild: backfill_day_summary returns (0, 0)
                /\ Return(<<"Rebuilding daily summaries in database ...">>
                          \o RebuildReport(0, 0))
                /\ reported' = 0
                /\ UNCHANGED txn
             ELSE
                /\ pc' = "backfill"
                /\ out' = out \o <<"Rebuilding daily summaries in database ...">>
                /\ txn' = [NoTxn EXCEPT !.day = NextDay(0),
                                        !.acc = DayAccum(NextDay(0))]
                /\ UNCHANGED <<exc, reported>>
    /\ UNCHANGED <<errCol, logDisabled>>
    /\ UNCHANGED invocation

\* backfill_day_summary folds the next record of the current day into the
\* day's accumulator.  A complete day joins the open transaction; the
\* transaction commits once it holds trans_days days, and at the end of the
\* range, where rebuild_daily reports and returns.
backfill_record ==
    /\ op = "rebuild_daily" /\ pc = "backfill"
    /\ LET d == txn.day
           k == txn.k + 1
           acc == AddRecord(txn.acc, d, k)
           rows == [txn.rows EXCEPT ![d] = acc]
           batch == txn.batch \cup {d}
           nxt == NextDay(d)
           commit == Cardinality(batch) >= RebuildTransDays \/ nxt = 0
       IN  IF k < recs[d] THEN
              /\ txn' = [txn EXCEPT !.k = k, !.acc = acc, !.nrecs = @ + 1]
              /\ UNCHANGED <<summary, pc, out, exc, reported>>
           ELSE
              /\ summary' = IF commit
                            THEN [x \in Days |->
                                    IF x \in batch THEN rows[x] ELSE summary[x]]
                            ELSE summary
              /\ txn' = [txn EXCEPT
                           !.day = nxt, !.k = 0,
                           !.acc = IF nxt = 0 THEN NoRow ELSE DayAccum(nxt),
                           !.rows = IF commit THEN NoSummary ELSE rows,
                           !.batch = IF commit THEN {} ELSE batch,
                           !.nrecs = @ + 1, !.ndays = @ + 1,
                           !.commits = IF commit THEN @ + 1 ELSE @]
              /\ IF nxt = 0 THEN
                    /\ Return(RebuildReport(txn.nrecs + 1, txn.ndays + 1))
                    /\ reported' = txn.nrecs + 1
                 ELSE UNCHANGED <<pc, out, exc, reported>>
    /\ UNCHANGED <<confirmed, calls, errCol, logDisabled>>
    /\ UNCHANGED invocation
    /\ UNCHANGED <<backendUp, archive, schema, recs, dailyExists, version,
                   missingDerived, newDb, newRecs, dest, destRecs>>

\* The storage fails during the backfill: the open transaction is discarded
\* and the exception leaves rebuild_daily, which catches nothing.
backfill_fail ==
    /\ op = "rebuild_daily" /\ pc = "backfill"
    /\ txn' = [txn EXCEPT
                 !.lost = Cardinality(txn.batch) + (IF txn.k > 0 THEN 1 ELSE 0),
                 !.acc = NoRow, !.rows = NoSummary, !.batch = {},
                 !.day = 0, !.k = 0]
    /\ Raise("OperationalError", <<>>)
    /\ UNCHANGED <<confirmed, calls, errCol, reported, logDisabled>>
    /\ UNCHANGED invocation
    /\ UNCHANGED storageVars

\* ------------------------------------------------------- reweight_daily
\* Manager.recalculate_weights: the weighted sum and the total weight of
\* every existing row in range are recomputed from the day's records.
\* A recalculation that adds the weights onto the stored ones.
LibRecalculateWeightsOnTop(sum) ==
    [d \in Days |->
        IF InRange(d) /\ sum[d].exists
        THEN [sum[d] EXCEPT !.wsum = @ + Aggregate(d, recs[d]).wsum,
                            !.sumtime = @ + Aggregate(d, recs[d]).sumtime]
        ELSE sum[d]]

LibRecalculateWeights(sum) ==
    [d \in Days |->
        IF InRange(d) /\ sum[d].exists
        THEN [sum[d] EXCEPT !.wsum = Aggregate(d, recs[d]).wsum,
                            !.sumtime = Aggregate(d, recs[d]).sumtime]
        ELSE sum[d]]

reweight_daily_answer(ans) ==
    /\ op = "reweight_daily" /\ pc = "prompt"
    /\ confirmed' = (confirmed \/ ans # "n")
    /\ IF ans = "n" THEN
          /\ Return(<<"Nothing done.">>)
          /\ UNCHANGED <<calls, summary>>
       ELSE IF ~CanOpenManager THEN
          /\ Raise("OperationalError", <<>>)
          /\ UNCHANGED <<calls, summary>>
       ELSE IF dryRun THEN
          /\ Return(<<"Recalculating the weighted summaries in database ...",
                      "Finished reweighting.">> \o Trailer)
          /\ UNCHANGED <<calls, summary>>
       ELSE
          /\ Log("recalculate_weights", confirmed')
          /\ summary' = LibRecalculateWeights(summary)
          /\ Return(<<"Recalculating the weighted summaries in database ...",
                      "Finished reweighting.">>)
    /\ UNCHANGED <<errCol, reported, txn, logDisabled>>
    /\ UNCHANGED invocation
    /\ UNCHANGED <<backendUp, archive, schema, recs, dailyExists, version,
                   missingDerived, newDb, newRecs, dest, destRecs>>

\* --------------------------------------------------------- calc_missing
calc_missing_prepare ==
    /\ op = "calc_missing" /\ pc = "begin"
    /\ IF ~CanOpenArchive THEN
          Raise("OperationalError", Prepare)
       ELSE IF arg.fromD = 0 /\ NumRecs(recs) = 0 THEN
          \* first_ts is None: first_ts - 1 raises
          Raise("TypeError", Prepare)
       ELSE
          /\ pc' = "prompt"
          /\ out' = out \o Prepare
                    \o (IF dryRun
                        THEN <<"This is a dry run, missing derived observations will be calculated but not saved">>
                        ELSE <<>>)
                    \o <<"Missing derived observations will be calculated">>
          /\ UNCHANGED exc
    /\ UNCHANGED <<confirmed, calls, errCol, reported, txn, logDisabled>>
    /\ UNCHANGED invocation
    /\ UNCHANGED storageVars

calc_missing_answer(ans) ==
    /\ op = "calc_missing" /\ pc = "prompt"
    /\ confirmed' = (confirmed \/ ans # "n")
    /\ IF ans = "n" THEN
          /\ Return(<<"Nothing done.">>)
          /\ UNCHANGED <<calls, missingDerived>>
       ELSE
          \/ \* CalcMissing.run() raises UnknownBinding: sys.exit
             /\ Raise("SystemExit",
                      <<"Calculating missing derived observations...",
                        "Error: UnknownBinding",
                        "Perhaps StdWXCalculate is using a different binding.">>)
             /\ UNCHANGED <<calls, missingDerived>>
          \/ /\ IF dryRun THEN UNCHANGED <<calls, missingDerived>>
                ELSE /\ Log("calc_missing", confirmed')
                     /\ missingDerived' = FALSE
             /\ Return(<<"Calculating missing derived observations...",
                         "Missing derived observations calculated">>)
    /\ UNCHANGED <<errCol, reported, txn, logDisabled>>
    /\ UNCHANGED invocation
    /\ UNCHANGED <<backendUp, archive, schema, recs, dailyExists, summary,
                   version, newDb, newRecs, dest, destRecs>>

\* ---------------------------------------------------------------- check
RECURSIVE StrLess(_, _)
\* Python's s < t on strings: lexicographic by code point.
StrLess(s, t) ==
    IF t = <<>> THEN FALSE
    ELSE IF s = <<>> THEN TRUE
    ELSE IF Code(Head(s)) < Code(Head(t)) THEN TRUE
    ELSE IF Code(Head(s)) > Code(Head(t)) THEN FALSE
    ELSE StrLess(Tail(s), Tail(t))

\* The test check() applies to the version it read.
FixNotRequired(v) == v.present /\ ~StrLess(v.text, <<"2", ".", "0">>)

check ==
    /\ op = "check" /\ pc = "begin"
    /\ IF ~CanOpenManager THEN
          Raise("OperationalError",
                Prepare \o <<"Checking daily summary tables version...">>)
       ELSE
          Return(Prepare
                 \o <<"Checking daily summary tables version...",
                      "Daily summary tables are at version">>
                 \o (IF FixNotRequired(version)
                     THEN <<"Interval Weighting Fix is not required.">>
                     ELSE <<"Recommend running --update to recalculate interval weightings.">>))
    /\ UNCHANGED <<confirmed, calls, errCol, reported, txn, logDisabled>>
    /\ UNCHANGED invocation
    /\ UNCHANGED storageVars

\* ------------------------------------------------- reconfigure_database
\* reconfigure_database from "Get the unit system of the old archive" up to
\* its "Are you sure you wish to proceed?" prompt.
ReconfigureProceed(msgs) ==
    IF ~CanOpenArchive THEN
       Raise("OperationalError", msgs)
    ELSE IF NumRecs(recs) = 0 THEN
       \* std_unit_system is None
       Return(msgs \o <<"Old database has not been initialized. Nothing to be done.">>)
    ELSE
       /\ pc' = "prompt"
       /\ out' = out \o msgs
                 \o <<"Copying database",
                      IF arg.convert THEN "Units will be converted."
                      ELSE "The new database will use the same unit system as the old.">>
       /\ UNCHANGED exc

reconfigure_database_prepare ==
    /\ op = "reconfigure_database" /\ pc = "begin"
    /\ IF dryRun THEN
          /\ ReconfigureProceed(Prepare)
          /\ UNCHANGED <<calls, newDb, newRecs>>
       ELSE
          /\ Log("create", confirmed)
          /\ IF ~backendUp THEN
                /\ Raise("OperationalError", Prepare)
                /\ UNCHANGED <<newDb, newRecs>>
             ELSE IF newDb = "ready" THEN
                \* weedb.DatabaseExists
                /\ pc' = "prompt_delete" /\ out' = out \o Prepare
                /\ UNCHANGED <<exc, newDb, newRecs>>
             ELSE
                /\ newDb' = "ready" /\ newRecs' = 0
                /\ ReconfigureProceed(Prepare)
    /\ UNCHANGED <<confirmed, errCol, reported, txn, logDisabled>>
    /\ UNCHANGED invocation
    /\ UNCHANGED <<backendUp, archive, schema, recs, dailyExists, summary,
                   version, missingDerived, dest, destRecs>>

reconfigure_database_delete(ans) ==
    /\ op = "reconfigure_database" /\ pc = "prompt_delete"
    /\ confirmed' = (confirmed \/ ans = "y")
    /\ IF ans = "y" THEN
          /\ Log("drop", confirmed')
          /\ newDb' = "absent" /\ newRecs' = 0
          /\ ReconfigureProceed(<<>>)
       ELSE
          /\ Return(<<"Nothing done.">>)
          /\ UNCHANGED <<calls, newDb, newRecs>>
    /\ UNCHANGED <<errCol, reported, txn, logDisabled>>
    /\ UNCHANGED invocation
    /\ UNCHANGED <<backendUp, archive, schema, recs, dailyExists, summary,
                   version, missingDerived, dest, destRecs>>

reconfigure_database_answer(ans) ==
    /\ op = "reconfigure_database" /\ pc = "prompt"
    /\ confirmed' = (confirmed \/ ans = "y")
    /\ IF ans = "y" THEN
          /\ IF dryRun THEN UNCHANGED <<calls, newDb, newRecs>>
             ELSE /\ Log("reconfig", confirmed')
                  \* weewx.manager.reconfig: the new database is created if
                  \* need be and every record is copied into it
                  /\ newDb' = "ready"
                  /\ newRecs' = newRecs + NumRecs(recs)
          /\ Return(<<"Database copied.">> \o Trailer)
       ELSE
          /\ Return(<<"Nothing done.">> \o Trailer)
          /\ UNCHANGED <<calls, newDb, newRecs>>
    /\ UNCHANGED <<errCol, reported, txn, logDisabled>>
    /\ UNCHANGED invocation
    /\ UNCHANGED <<backendUp, archive, schema, recs, dailyExists, summary,
                   version, missingDerived, dest, destRecs>>

\* ---------------------------------------------------- transfer_database
\* What transfer_database prints when the destination binding cannot be
\* resolved (it then returns).
TransferBindingReport(c) ==
    CASE c = "UnknownBinding" ->
            <<"Unknown destination binding.", "Nothing Done. Aborting.">>
      [] c = "UnknownDatabase" ->
            <<"Error accessing destination database: UnknownDatabase",
              "Nothing Done. Aborting.">>
      [] c = "BadSchema" ->
            <<"Error accessing destination database.",
              "Maybe the destination schema is incorrectly specified?",
              "Nothing Done. Aborting.">>
      [] c = "UnknownDatabaseType" ->
            <<"Error accessing destination database.",
              "Maybe the destination database is incorrectly defined in weewx.conf?",
              "Nothing Done. Aborting.">>

\* What the except clauses around the transfer print for exception e.
TransferErrorReport(e) ==
    CASE e = "ImportError" ->
            <<"Error accessing destination database.", "Nothing done. Aborting.">>
      [] e \in {"OSError", "OperationalError"} ->
            <<"Error accessing destination database.",
              "Maybe it does not exist (MySQL) or is incorrectly defined in weewx.conf?",
              "Nothing done. Aborting.">>
      [] OTHER -> <<>>

\* A faulty except clause that swallows the exception.
TransferReraiseSwallowed(e) == "none"

\* The except clauses end with a bare raise: the exception goes on to the caller.
TransferReraise(e) == e

\* A faulty count: nrecs as set before the copy.
TransferCountStale(n) == 0

\* The count the completion message shows: what addRecord returned.
TransferCount(n) == n

transfer_database_prepare ==
    /\ op = "transfer_database" /\ pc = "begin"
    /\ LET banner ==
             (IF dryRun
              THEN <<"This is a dry run. Nothing will actually be done.">>
              ELSE <<>>) \o <<"The configuration file will be used.">>
       IN  IF ~arg.destBinding THEN
              Return(<<"Destination binding not specified. Nothing Done. Aborting.">>)
           ELSE IF arg.destCfg # "ok" THEN
              Return(banner \o TransferBindingReport(arg.destCfg))
           ELSE IF ~CanOpenArchive THEN
              Raise("OperationalError", banner)
           ELSE IF NumRecs(recs) = 0 THEN
              Return(banner \o <<"No records found in source database.",
                                 "Nothing done. Aborting.">>)
           ELSE
              /\ pc' = "prompt" /\ out' = out \o banner /\ UNCHANGED exc
    /\ UNCHANGED <<confirmed, calls, errCol, reported, txn, logDisabled>>
    /\ UNCHANGED invocation
    /\ UNCHANGED storageVars

transfer_database_answer(ans) ==
    /\ op = "transfer_database" /\ pc = "prompt"
    /\ confirmed' = (confirmed \/ ans # "n")
    /\ IF ans = "n" THEN
          /\ Return(<<"Nothing done.">>)
          /\ UNCHANGED <<calls, dest, reported, txn, logDisabled>>
       ELSE IF arg.destOpen # "ok" THEN
          \* Manager.open_with_create raises
          /\ Raise(TransferReraise(arg.destOpen), TransferErrorReport(arg.destOpen))
          /\ UNCHANGED <<calls, dest, reported, txn, logDisabled>>
       ELSE
          \* Manager.open_with_create creates the database and its table if
          \* they do not exist
          /\ dest' = "ready"
          /\ calls' = calls
                      \cup (IF dest = "ready" THEN {}
                            ELSE {[call |-> "open_with_create",
                                   confirmed |-> confirmed']})
                      \cup (IF dryRun THEN {}
                            ELSE {[call |-> "addRecord", confirmed |-> confirmed']})
          /\ IF dryRun THEN
                /\ Return(<<"Transferring, this may take a while.... ",
                            "Completed.", "records transferred">> \o Trailer)
                /\ reported' = TransferCount(0)
                /\ UNCHANGED <<txn, logDisabled>>
             ELSE
                /\ pc' = "copying"
                /\ out' = out \o <<"Transferring, this may take a while.... ">>
                /\ logDisabled' = TRUE
                /\ txn' = NoTxn
                /\ UNCHANGED <<exc, reported>>
    /\ UNCHANGED errCol
    /\ UNCHANGED invocation
    /\ UNCHANGED <<backendUp, archive, schema, recs, dailyExists, summary,
                   version, missingDerived, newDb, newRecs, destRecs>>

\* Manager.addRecord writes the next source record inside its transaction;
\* after the last one the transaction commits, addRecord returns the count,
\* and transfer_database re-enables logging, reports and returns.
transfer_record ==
    /\ op = "transfer_database" /\ pc = "copying"
    /\ IF txn.copied + 1 < NumRecs(recs) THEN
          /\ txn' = [txn EXCEPT !.copied = @ + 1]
          /\ UNCHANGED <<destRecs, logDisabled, pc, out, exc, reported>>
       ELSE
          /\ txn' = [txn EXCEPT !.copied = 0, !.nrecs = txn.copied + 1,
                                !.commits = 1]
          /\ destRecs' = destRecs + txn.copied + 1
          /\ logDisabled' = FALSE
          /\ reported' = TransferCount(txn.copied + 1)
          /\ Return(<<"Completed.", "records transferred">>)
    /\ UNCHANGED <<confirmed, calls, errCol>>
    /\ UNCHANGED invocation
    /\ UNCHANGED <<backendUp, archive, schema, recs, dailyExists, summary,
                   version, missingDerived, newDb, newRecs, dest>>

\* The copy fails with exception e: the transaction is rolled back and the
\* exception passes the except clauses on its way to the caller.
transfer_fail(e) ==
    /\ op = "transfer_database" /\ pc = "copying"
    /\ txn' = [txn EXCEPT !.lost = txn.copied, !.copied = 0]
    /\ Raise(TransferReraise(e), TransferErrorReport(e))
    /\ UNCHANGED <<confirmed, calls, errCol, reported, logDisabled>>
    /\ UNCHANGED invocation
    /\ UNCHANGED storageVars

\* ----------------------------------------------------------------- Next
Next ==
    \/ invoke
    \/ invoke_again
    \/ prepare
    \/ create_database
    \/ \E ans \in Answers : drop_daily_answer(ans)
    \/ \E ans \in Answers : rebuild_daily_answer(ans)
    \/ backfill_record
    \/ backfill_fail
    \/ \E ans \in Answers : add_column_answer(ans)
    \/ \E ans \in Answers : rename_column_answer(ans)
    \/ \E ans \in Answers : drop_columns_answer(ans)
    \/ reconfigure_database_prepare
    \/ \E ans \in Answers : reconfigure_database_delete(ans)
    \/ \E ans \in Answers : reconfigure_database_answer(ans)
    \/ transfer_database_prepare
    \/ \E ans \in Answers : transfer_database_answer(ans)
    \/ transfer_record
    \/ \E e \in {"OperationalError", "OSError", "IntegrityError"} : transfer_fail(e)
    \/ calc_missing_prepare
    \/ \E ans \in Answers : calc_missing_answer(ans)
    \/ check
    \/ \E ans \in Answers : reweight_daily_answer(ans)

Spec == Init /\ [][Next]_vars

\* =============================================================== claims
Printed(m) == \E i \in DOMAIN out : out[i] = m
PrintedThen(m, n) ==
    \E i \in DOMAIN out : i + 1 \in DOMAIN out /\ out[i] = m /\ out[i + 1] = n
Made(name) == \E c \in calls : c.call = name
Finished(h) == op = h /\ pc = "done"

\* C1: with dry_run=True no handler changes the storage: in every state of a
\* dry run the source, '<name>_new' and destination databases are as they
\* were when the handler was entered.  (Fails: transfer_database opens the
\* destination with open_with_create, which creates it, dry run or not.)
C1_DryRunLeavesStorage == dryRun => Storage = entry

\* C2, as claimed: every mutating library call of a run is made after a
\* prompt of that run was answered 'y'.
C2_NoCallBeforeConfirm == \A c \in calls : c.confirmed

\* C2, amended: every mutating library call of a run is made after a prompt
\* of that run was answered 'y', except the initialising open of
\* create_database (which never prompts) and the weedb.create of
\* '<name>_new' in reconfigure_database (made before its first prompt).
C2_NoCallBeforeConfirmAmended ==
    \A c \in calls :
        \/ c.confirmed
        \/ op = "create_database" /\ c.call = "initialize"
        \/ op = "reconfigure_database" /\ c.call = "create"

\* C2 witness: a confirmed drop_daily has dropped the daily summaries.
C2_Witness ==
    /\ Finished("drop_daily") /\ entry.dailyExists /\ ~dailyExists
    /\ [call |-> "drop_daily", confirmed |-> TRUE] \in calls

\* C3: drop_columns is all-or-nothing.  After a confirmed, non-dry-run
\* drop_columns that reached Manager.drop_columns: if a requested name is
\* missing from the schema, the schema is as on entry, a NoColumnError naming
\* a missing requested column is printed followed by 'Nothing done.' and the
\* success message is not printed; otherwise exactly the requested columns
\* are gone and the success message is printed.
C3_DropColumnsAllOrNothing ==
    (Finished("drop_columns") /\ Made("drop_columns")) =>
        IF arg.cols \subseteq entry.schema
        THEN /\ schema = entry.schema \ arg.cols
             /\ Printed("Column(s) dropped from the database.")
             /\ ~Printed("Nothing done.")
        ELSE /\ schema = entry.schema
             /\ errCol \in arg.cols \ entry.schema
             /\ PrintedThen("NoColumnError: column does not exist", "Nothing done.")
             /\ ~Printed("Column(s) dropped from the database.")

\* C3 witness: columns {a, b} were requested of a schema without b.
C3_Witness ==
    /\ Finished("drop_columns") /\ Made("drop_columns")
    /\ arg.cols = {"a", "b"} /\ entry.schema = {"a", "c"}
    /\ schema = {"a", "c"} /\ errCol = "b"

\* C4: when a confirmed, non-dry-run add_column is given a name that exists,
\* or rename_column a source name that is absent, the handler prints that
\* nothing was done, does not print its success message, and leaves the
\* schema unchanged.  (Fails: neither handler catches the exception.)
C4_SchemaFailureReported ==
    /\ (Finished("add_column") /\ Made("add_column") /\ arg.col \in entry.schema) =>
          /\ Printed("Nothing done.")
          /\ ~Printed("New column added to database.")
          /\ schema = entry.schema
    /\ (Finished("rename_column") /\ Made("rename_column")
        /\ arg.col \notin entry.schema) =>
          /\ Printed("Nothing done.")
          /\ ~Printed("Column renamed.")
          /\ schema = entry.schema

\* The destination binding of a transfer could not be resolved.
BindingFailed ==
    op = "transfer_database" /\ arg.destBinding /\ arg.destCfg # "ok"
\* The destination of a transfer could not be opened.
OpenFailed ==
    /\ op = "transfer_database" /\ arg.destBinding /\ arg.destCfg = "ok"
    /\ arg.destOpen # "ok" /\ confirmed

\* C5, as claimed: whenever the destination cannot be used, the caller gets
\* the failure (no normal return) and no storage is written.
C5_DestinationFailurePropagates ==
    (pc = "done" /\ (BindingFailed \/ OpenFailed)) =>
        exc # "none" /\ Storage = entry

\* C5, amended: when the destination cannot be opened (ImportError, OSError,
\* OperationalError from open_with_create) the exception is re-raised to the
\* caller after 'Nothing done. Aborting.'; when the destination binding
\* cannot be resolved the handler prints 'Nothing Done. Aborting.' and
\* returns normally.  In both cases no storage is written.
C5_DestinationFailureAborts ==
    /\ (pc = "done" /\ OpenFailed) =>
          /\ exc = arg.destOpen
          /\ Printed("Nothing done. Aborting.")
          /\ Storage = entry
    /\ (pc = "done" /\ BindingFailed) =>
          /\ exc = "none"
          /\ out[Len(out)] = "Nothing Done. Aborting."
          /\ Storage = entry

\* C5 witness: opening the destination raised OSError.
C5_Witness ==
    /\ pc = "done" /\ OpenFailed /\ arg.destOpen = "OSError" /\ exc = "OSError"
    /\ ~dryRun

\* C6: a confirmed, non-dry-run transfer is one transaction.  At every
\* moment the destination shows none or all of the N source records of this
\* transfer; when the handler returns it shows all N and N is reported; when
\* the copy fails it shows none.
C6_TransferIsOneTransaction ==
    (op = "transfer_database" /\ Made("addRecord")) =>
        /\ destRecs \in {entry.destRecs, entry.destRecs + NumRecs(recs)}
        /\ (pc = "done" /\ exc = "none") =>
              /\ destRecs = entry.destRecs + NumRecs(recs)
              /\ reported = NumRecs(recs)
        /\ (pc = "done" /\ exc # "none") => destRecs = entry.destRecs

\* C6 witness: the copy failed after some records were written.
C6_Witness ==
    /\ Finished("transfer_database") /\ Made("addRecord")
    /\ exc = "OperationalError" /\ txn.lost >= 2
    /\ destRecs = entry.destRecs

\* C7: a confirmed rebuild_daily run again after a confirmed run leaves every DailySummary
\* row as the first run left it, and every rebuilt day holds the aggregate of
\* its records alone.
C7_RebuildIdempotent ==
    (Finished("rebuild_daily") /\ exc = "none" /\ confirmed /\ ~dryRun
     /\ runs >= 2 /\ first.confirmed) =>
        /\ summary = entry.summary
        /\ \A d \in RebuildDays : summary[d] = Aggregate(d, recs[d])

\* C7 witness: a second confirmed rebuild of several days has completed.
C7_Witness ==
    /\ Finished("rebuild_daily") /\ exc = "none" /\ confirmed /\ ~dryRun
    /\ runs >= 2 /\ first.confirmed
    /\ txn.ndays >= 2 /\ txn.nrecs > txn.ndays

\* C8: a confirmed, non-dry-run rebuild_daily without date bounds creates the
\* summary tables if they are missing (whenever the backend can be reached),
\* and when it completes every day that holds a record has a summary row
\* whose count is the number of records of that day.
C8_RebuildCountsRecords ==
    (op = "rebuild_daily" /\ confirmed /\ ~dryRun /\ arg.fromD = 0 /\ arg.toD = 0) =>
        /\ (entry.backendUp /\ pc \in {"backfill", "done"}) => dailyExists
        /\ (pc = "done" /\ exc = "none") =>
              \A d \in Days :
                  recs[d] > 0 => summary[d].exists /\ summary[d].count = recs[d]

\* C8 witness: the rebuild created the tables and summarised a two-record day.
C8_Witness ==
    /\ Finished("rebuild_daily") /\ exc = "none" /\ confirmed /\ ~dryRun
    /\ arg.fromD = 0 /\ arg.toD = 0
    /\ ~entry.dailyExists /\ dailyExists
    /\ \E d \in Days : recs[d] = 2 /\ summary[d].count = 2

\* The position of day d among the days being rebuilt.
Rank(d) == Cardinality({x \in RebuildDays : x <= d})

\* C9: a rebuild commits in batches of 20 days.  During a confirmed,
\* non-dry-run rebuild every day's summary is its pre-rebuild row or its
\* fully rebuilt row; when the rebuild fails, the days of every batch of 20
\* completed before the failure hold their rebuilt rows and the work of at
\* most 20 days is discarded.
C9_RebuildBatches ==
    (op = "rebuild_daily" /\ confirmed /\ ~dryRun) =>
        /\ \A d \in Days :
              summary[d] = entry.summary[d] \/ summary[d] = Aggregate(d, recs[d])
        /\ (pc = "done" /\ exc # "none" /\ Made("backfill_day_summary")) =>
              /\ txn.lost <= 20
              /\ \A d \in RebuildDays :
                    Rank(d) <= 20 * (txn.ndays \div 20) =>
                        summary[d] = Aggregate(d, recs[d])

\* C9 witness: the rebuild failed after its first batch was committed, with
\* later work discarded.
C9_Witness ==
    /\ Finished("rebuild_daily") /\ exc = "OperationalError"
    /\ txn.commits = 1 /\ txn.lost > 0
    /\ \E d \in Days : summary[d] # entry.summary[d]

\* The number a string of digits denotes.
RECURSIVE ParseInt(_)
ParseInt(s) ==
    IF s = <<>> THEN 0
    ELSE 10 * ParseInt(SubSeq(s, 1, Len(s) - 1)) + (Code(s[Len(s)]) - 48)

\* The major part of a version string: the digits before the first dot.
RECURSIVE MajorText(_)
MajorText(s) ==
    IF s = <<>> \/ Head(s) = "." THEN <<>> ELSE <<Head(s)>> \o MajorText(Tail(s))

\* The version is at least 2.0 as a version number.
AtLeastTwo(v) == v.present /\ ParseInt(MajorText(v.text)) >= 2

\* C10: check() reports that the interval weighting fix is not required
\* exactly when the stored version is present and at least 2.0 as a version
\* number, and recommends the update otherwise.  (Fails: the code compares
\* strings, and '10.0' >= '2.0' is false.)
C10_CheckByVersionNumber ==
    (Finished("check") /\ exc = "none") =>
        /\ Printed("Interval Weighting Fix is not required.") <=> AtLeastTwo(version)
        /\ Printed("Recommend running --update to recalculate interval weightings.")
              <=> ~AtLeastTwo(version)

\* Everything of a DailySummary row but its weighted sum and total weight.
Unweighted(row) == [exists |-> row.exists, count |-> row.count,
                    sum |-> row.sum, min |-> row.min, max |-> row.max]

ReweightDone ==
    Finished("reweight_daily") /\ exc = "none" /\ confirmed /\ ~dryRun

\* C11: a confirmed reweight_daily leaves count, sum, min, max and the set of
\* DailySummary rows as they were on entry, and a confirmed reweight_daily run
\* again after a confirmed run leaves the weighted sum and the total weight
\* of every row as the first run left them.
C11_ReweightIdempotent ==
    ReweightDone =>
        /\ \A d \in Days : Unweighted(summary[d]) = Unweighted(entry.summary[d])
        /\ (runs >= 2 /\ first.confirmed) => summary = entry.summary

\* C11 witness: a second confirmed reweight over part of the days has
\* completed, on rows whose weights differ from the unweighted ones.
C11_Witness ==
    /\ ReweightDone /\ runs >= 2 /\ first.confirmed
    /\ Made("recalculate_weights")
    /\ \E d \in Days :
          /\ InRange(d) /\ recs[d] > 0 /\ summary[d].exists
          /\ summary[d].wsum # LegacyRow(d, recs[d]).wsum
          /\ summary[d].count = LegacyRow(d, recs[d]).count
    /\ \E d \in Days : ~InRange(d) /\ summary[d].exists

\* The reports by which a handler says that it did nothing.
NothingDoneReports ==
    {"Nothing done.", "No daily summaries found in database. Nothing done.",
     "Database already exists. Nothing done."}

NothingDone == pc = "done" /\ \E m \in NothingDoneReports : Printed(m)

\* C12: whenever a handler ends a run by printing "Nothing done.", the
\* storage is in the state it was in when the handler was entered: no
\* database, table, column or row has been created, dropped or changed.
C12_NothingDoneLeavesStorage == NothingDone => Storage = entry

\* C13: whenever transfer_database has been left, by a return or by a
\* propagated exception, the suppression of log events at or below INFO that
\* it turned on before the copy is off again (the level is back at NOTSET).
C13_LoggingRestored == Finished("transfer_database") => ~logDisabled

\* The database existed and was initialized when the run was entered.
ExistedOnEntry == entry.backendUp /\ entry.archive = "ready" /\ entry.dailyExists

\* C14: create_database on a database that exists and is initialized prints
\* "already exists. Nothing done." and leaves it unchanged, so a second run
\* leaves the state the first one left; and when the first open fails for a
\* cause other than a missing database (the backend cannot be reached), no
\* initializing open is attempted and "Created database" is not printed.
C14_CreateOnlyWhenMissing ==
    Finished("create_database") =>
        /\ ExistedOnEntry =>
              /\ Printed("Database already exists. Nothing done.")
              /\ Storage = entry
        /\ runs >= 2 => Storage = entry
        /\ ~entry.backendUp =>
              /\ ~Made("initialize")
              /\ ~Printed("Created database.")

====
